---- MODULE Spec2Model ----
(***************************************************************************)
(* Expense tracker screen (src/ExpenseScreen.js): the SQLite table, the    *)
(* cached list, the add / edit forms, the persistence calls in flight and  *)
(* the pure view functions (time windows, filter, aggregation).            *)
(*                                                                         *)
(* Strings are sequences of one-character strings.  Instants are whole     *)
(* hours since 1970-01-01T00:00Z; the host's zone is a fixed offset in     *)
(* hours (local = UTC + tzOffset), without daylight saving.  JavaScript    *)
(* numbers are integers rounded to a significand of Precision bits         *)
(* (round to nearest, ties to even), plus NaN.                             *)
(***************************************************************************)
EXTENDS Integers, Sequences, FiniteSets

VARIABLES
    store,            \* rows of table expenses (a set of records)
    nextId,           \* AUTOINCREMENT counter of the table
    expenses,         \* useState: the cached list
    filter,           \* useState: FILTER_ALL / FILTER_WEEK / FILTER_MONTH
    amount,           \* useState: add form
    category,
    note,
    editingExpense,   \* useState: NoExpense or the row being edited
    editAmount,
    editCategory,
    editNote,
    editDate,
    pending,          \* persistence calls in flight, in the order issued
    now,              \* the host clock (what new Date() returns)
    tzOffset,         \* the host's zone offset in hours
    refused,          \* history: "add" / "edit" when the last step was that handler refusing its form
    failures          \* history: persistence calls that have failed

formVars == <<amount, category, note>>
editVars == <<editingExpense, editAmount, editCategory, editNote, editDate>>
hostVars == <<now, tzOffset>>
vars == <<store, nextId, expenses, filter, amount, category, note,
          editingExpense, editAmount, editCategory, editNote, editDate,
          pending, now, tzOffset, refused, failures>>

-----------------------------------------------------------------------------
(* Bounds *)

\* significand width of the modelled floating-point numbers (53 in IEEE double)
Precision == 3
\* rows the table may ever receive (bounds the AUTOINCREMENT counter)
MaxId == 1
\* persistence calls in flight at once
MaxPending == 2
\* persistence calls that may fail in one run
MaxFailures == 1
\* length of the lists the view functions are applied to
MaxList == 3

-----------------------------------------------------------------------------
(* Strings *)

FILTER_ALL == "ALL"
FILTER_WEEK == "WEEK"
FILTER_MONTH == "MONTH"

\* the characters used, in code-unit order
Alphabet == <<" ", "-", "0", "1", "2", "3", "4", "5", "6", "7", "8", "9",
              "B", "F", "a", "d", "n", "o", "s", "u", "x">>

CharCode(c) == CHOOSE i \in 1..Len(Alphabet) : Alphabet[i] = c

DigitChars == <<"0", "1", "2", "3", "4", "5", "6", "7", "8", "9">>

IsDigit(c) == \E i \in 1..10 : DigitChars[i] = c

DigitVal(c) == (CHOOSE i \in 1..10 : DigitChars[i] = c) - 1

\* SQL NULL / JavaScript null in a text column
NULL == <<"NULL">>

\* BINARY collation: s sorts strictly before t
RECURSIVE StrLess(_, _)
StrLess(s, t) ==
    IF t = <<>> THEN FALSE
    ELSE IF s = <<>> THEN TRUE
    ELSE IF Head(s) = Head(t) THEN StrLess(Tail(s), Tail(t))
    ELSE CharCode(Head(s)) < CharCode(Head(t))

RECURSIVE TrimStart(_)
TrimStart(s) ==
    IF s # <<>> /\ Head(s) = " " THEN TrimStart(Tail(s)) ELSE s

RECURSIVE TrimEnd(_)
TrimEnd(s) ==
    IF s # <<>> /\ s[Len(s)] = " " THEN TrimEnd(SubSeq(s, 1, Len(s) - 1)) ELSE s

\* String.prototype.trim
Trim(s) == TrimEnd(TrimStart(s))

-----------------------------------------------------------------------------
(* JavaScript values and numbers *)

JsNum(n) == [k |-> "num", v |-> n, s |-> <<>>]
JsNaN == [k |-> "nan", v |-> 0, s |-> <<>>]
JsNull == [k |-> "null", v |-> 0, s |-> <<>>]
JsStr(str) == [k |-> "str", v |-> 0, s |-> str]

RECURSIVE Pow2(_)
Pow2(n) == IF n = 0 THEN 1 ELSE 2 * Pow2(n - 1)

\* the spacing of representable numbers at magnitude n
RECURSIVE Ulp(_)
Ulp(n) == IF n < Pow2(Precision) THEN 1 ELSE 2 * Ulp(n \div 2)

\* round to nearest representable number, ties to even significand
FRoundAbs(n) ==
    LET u == Ulp(n)
        lo == (n \div u) * u
        r == n - lo
    IN  IF 2 * r < u THEN lo
        ELSE IF 2 * r > u THEN lo + u
        ELSE IF (lo \div u) % 2 = 0 THEN lo ELSE lo + u

FRound(n) == IF n < 0 THEN 0 - FRoundAbs(0 - n) ELSE FRoundAbs(n)

\* the + of two numbers
FAdd(a, b) ==
    IF a.k = "nan" \/ b.k = "nan" THEN JsNaN ELSE JsNum(FRound(a.v + b.v))

RECURSIVE DigitsPrefix(_)
DigitsPrefix(s) ==
    IF s # <<>> /\ IsDigit(Head(s)) THEN <<Head(s)>> \o DigitsPrefix(Tail(s))
    ELSE <<>>

RECURSIVE DigitsValue(_)
DigitsValue(ds) ==
    IF ds = <<>> THEN 0
    ELSE 10 * DigitsValue(SubSeq(ds, 1, Len(ds) - 1)) + DigitVal(ds[Len(ds)])

\* parseFloat: leading whitespace skipped, the longest numeric prefix read
parseFloat(str) ==
    LET t == TrimStart(str)
        neg == t # <<>> /\ Head(t) = "-"
        body == IF neg THEN Tail(t) ELSE t
        ds == DigitsPrefix(body)
    IN  IF ds = <<>> THEN JsNaN
        ELSE JsNum(FRound(IF neg THEN 0 - DigitsValue(ds) ELSE DigitsValue(ds)))

\* Number(string): the whole trimmed string must be numeric; "" is 0
StringToNumber(str) ==
    LET t == Trim(str)
        neg == t # <<>> /\ Head(t) = "-"
        body == IF neg THEN Tail(t) ELSE t
        ds == DigitsPrefix(body)
    IN  IF t = <<>> THEN JsNum(0)
        ELSE IF ds = <<>> \/ ds # body THEN JsNaN
        ELSE JsNum(FRound(IF neg THEN 0 - DigitsValue(ds) ELSE DigitsValue(ds)))

\* Number(x)
ToNumber(x) ==
    IF x.k = "null" THEN JsNum(0)
    ELSE IF x.k = "str" THEN StringToNumber(x.s)
    ELSE x

\* !x
Falsy(x) ==
    \/ x.k = "null"
    \/ x.k = "nan"
    \/ x.k = "num" /\ x.v = 0
    \/ x.k = "str" /\ x.s = <<>>

-----------------------------------------------------------------------------
(* Dates: the Date object's day arithmetic *)

\* days from 1970-01-01 to the civil date y-m-d (m in 1..12, d any integer)
DaysFromCivil(y, m, d) ==
    LET yy == IF m <= 2 THEN y - 1 ELSE y
        era == yy \div 400
        yoe == yy - era * 400
        mp == IF m > 2 THEN m - 3 ELSE m + 9
        doy == (153 * mp + 2) \div 5 + d - 1
        doe == yoe * 365 + yoe \div 4 - yoe \div 100 + doy
    IN  era * 146097 + doe - 719468

\* the civil date of day number z
CivilFromDays(z) ==
    LET zz == z + 719468
        era == zz \div 146097
        doe == zz - era * 146097
        yoe == (doe - doe \div 1460 + doe \div 36524 - doe \div 146096) \div 365
        doy == doe - (365 * yoe + yoe \div 4 - yoe \div 100)
        mp == (5 * doy + 2) \div 153
        d == doy - (153 * mp + 2) \div 5 + 1
        m == IF mp < 10 THEN mp + 3 ELSE mp - 9
        y == yoe + era * 400
    IN  [y |-> IF m <= 2 THEN y + 1 ELSE y, m |-> m, d |-> d]

\* MakeDay(year, month, date): month counted from 0 and normalised
MakeDay(year, month0, date) ==
    DaysFromCivil(year + month0 \div 12, (month0 % 12) + 1, 1) + date - 1

\* the instant of 00:00 UTC of a day number
UtcMidnight(day) == day * 24

\* local time value of an instant, and back
LocalTime(t) == t + tzOffset
UtcOfLocal(lt) == lt - tzOffset

LocalDay(t) == LocalTime(t) \div 24
UtcDay(t) == t \div 24

\* Date.prototype.getDay: 0 = Sunday ... 6 = Saturday, in local time
GetDay(t) == (LocalDay(t) + 4) % 7
GetDate(t) == CivilFromDays(LocalDay(t)).d
GetMonth(t) == CivilFromDays(LocalDay(t)).m - 1
GetFullYear(t) == CivilFromDays(LocalDay(t)).y

\* d.setDate(n); d.setHours(0,0,0,0)
SetDateMidnight(t, n) ==
    UtcOfLocal(MakeDay(GetFullYear(t), GetMonth(t), n) * 24)

\* new Date(year, month, day) then setHours(0,0,0,0)
NewLocalDate(year, month0, day) == UtcOfLocal(MakeDay(year, month0, day) * 24)

Pad2(n) == <<DigitChars[((n \div 10) % 10) + 1], DigitChars[(n % 10) + 1]>>
Pad4(n) == Pad2(n \div 100) \o Pad2(n % 100)

\* toISOString().slice(0, 10) of an instant: the UTC date
IsoDateOf(t) ==
    LET c == CivilFromDays(UtcDay(t))
    IN  Pad4(c.y) \o <<"-">> \o Pad2(c.m) \o <<"-">> \o Pad2(c.d)

DaysInMonth(y, m) == DaysFromCivil(y + m \div 12, (m % 12) + 1, 1) - DaysFromCivil(y, m, 1)

\* the text has the shape DDDD-DD-DD
IsoShape(str) ==
    /\ Len(str) = 10
    /\ \A i \in {1, 2, 3, 4, 6, 7, 9, 10} : IsDigit(str[i])
    /\ str[5] = "-" /\ str[8] = "-"

IsoYear(str) == DigitsValue(SubSeq(str, 1, 4))
IsoMonth(str) == DigitsValue(SubSeq(str, 6, 7))
IsoDayOfMonth(str) == DigitsValue(SubSeq(str, 9, 10))

\* a valid calendar date in YYYY-MM-DD form
IsValidIsoDate(str) ==
    /\ IsoShape(str)
    /\ IsoMonth(str) \in 1..12
    /\ IsoDayOfMonth(str) \in 1..DaysInMonth(IsoYear(str), IsoMonth(str))

\* new Date(text) of a column value: a date-only ISO text is read as 00:00 UTC of
\* that day, anything else gives an invalid Date
NewDateFromText(str) ==
    IF IsValidIsoDate(str)
    THEN [valid |-> TRUE,
          t |-> UtcMidnight(DaysFromCivil(IsoYear(str), IsoMonth(str), IsoDayOfMonth(str)))]
    ELSE [valid |-> FALSE, t |-> 0]

-----------------------------------------------------------------------------
(* Time windows *)

\* getWeekBounds with the week starting on Sunday (diffToMonday = day)
getWeekBoundsFromSunday(t) ==
    LET day == GetDay(t)
        start == SetDateMidnight(t, GetDate(t) - day)
        end == SetDateMidnight(start, GetDate(start) + 7)
    IN  [start |-> start, end |-> end]

\* getWeekBounds(date)
getWeekBounds(t) ==
    LET day == GetDay(t)
        diffToMonday == (day + 6) % 7
        start == SetDateMidnight(t, GetDate(t) - diffToMonday)
        end == SetDateMidnight(start, GetDate(start) + 7)
    IN  [start |-> start, end |-> end]

\* getMonthBounds(date)
getMonthBounds(t) ==
    LET year == GetFullYear(t)
        month == GetMonth(t)
    IN  [start |-> NewLocalDate(year, month, 1),
         end |-> NewLocalDate(year, month + 1, 1)]

\* getTodayIsoDate()
getTodayIsoDate == IsoDateOf(now)

-----------------------------------------------------------------------------
(* The view: filter and aggregation *)

\* the callback of expenses.filter: d >= start && d < end
InWindow(exp, w) ==
    LET d == NewDateFromText(exp.date)
    IN  d.valid /\ d.t >= w.start /\ d.t < w.end

\* the body of the useMemo filteredExpenses, for cached list list, filter f,
\* with new Date() = t
FilterExpenses(list, f, t) ==
    IF f = FILTER_ALL THEN list
    ELSE LET w == IF f = FILTER_WEEK THEN getWeekBounds(t) ELSE getMonthBounds(t)
             Keep(exp) == InWindow(exp, w)
         IN  SelectSeq(list, Keep)

Uncategorized == <<"U", "n", "c", "a", "t", "e", "g", "o", "r", "i", "z", "e", "d">>

\* exp.category || 'Uncategorized'
CategoryLabel(exp) ==
    IF exp.category = NULL \/ exp.category = <<>> THEN Uncategorized ELSE exp.category

\* Number(exp.amount || 0)
AmountNumber(exp) == ToNumber(IF Falsy(exp.amount) THEN JsNum(0) ELSE exp.amount)

EmptyMap == [c \in {} |-> JsNum(0)]

\* map[cat] || 0
MapGetOrZero(map, cat) ==
    IF cat \in DOMAIN map /\ ~Falsy(map[cat]) THEN map[cat] ELSE JsNum(0)

\* the loop of totalsByCategory, from the map built so far
RECURSIVE TotalsFrom(_, _)
TotalsFrom(map, list) ==
    IF list = <<>> THEN map
    ELSE LET exp == Head(list)
             cat == CategoryLabel(exp)
             total == FAdd(MapGetOrZero(map, cat), AmountNumber(exp))
         IN  TotalsFrom([c \in DOMAIN map \cup {cat} |->
                            IF c = cat THEN total ELSE map[c]],
                        Tail(list))

\* totalsByCategory storing each row's amount instead of adding it
RECURSIVE TotalsOverwriting(_)
TotalsOverwriting(list) ==
    IF list = <<>> THEN EmptyMap
    ELSE LET init == TotalsOverwriting(SubSeq(list, 1, Len(list) - 1))
             exp == list[Len(list)]
             cat == CategoryLabel(exp)
         IN  [c \in DOMAIN init \cup {cat} |->
                 IF c = cat THEN AmountNumber(exp) ELSE init[c]]

\* the body of the useMemo totalsByCategory
TotalsOf(list) == TotalsFrom(EmptyMap, list)

\* the reduce of overallTotal, from the sum so far
RECURSIVE ReduceSum(_, _)
ReduceSum(sum, list) ==
    IF list = <<>> THEN sum
    ELSE ReduceSum(FAdd(sum, AmountNumber(Head(list))), Tail(list))

\* the body of the useMemo overallTotal
TotalOf(list) == ReduceSum(JsNum(0), list)

-----------------------------------------------------------------------------
(* The table *)

\* row a comes before row b under ORDER BY date DESC, id DESC
RowBefore(a, b) ==
    \/ StrLess(b.date, a.date)
    \/ a.date = b.date /\ a.id > b.id

\* SELECT * FROM expenses ORDER BY date DESC, id DESC
RECURSIVE SelectAll(_)
SelectAll(rows) ==
    IF rows = {} THEN <<>>
    ELSE LET first == CHOOSE a \in rows : \A b \in rows \ {a} : RowBefore(a, b)
         IN  <<first>> \o SelectAll(rows \ {first})

-----------------------------------------------------------------------------
(* Inputs *)

S_Food == <<"F", "o", "o", "d">>
S_Bus == <<"B", "u", "s">>
S_Blank == <<" ", " ", " ">>
D_Jan01 == <<"2", "0", "2", "4", "-", "0", "1", "-", "0", "1">>
D_Jan08 == <<"2", "0", "2", "4", "-", "0", "1", "-", "0", "8">>
D_Dec31 == <<"2", "0", "2", "3", "-", "1", "2", "-", "3", "1">>
D_Month13 == <<"2", "0", "2", "4", "-", "1", "3", "-", "0", "1">>
D_Soon == <<"s", "o", "o", "n">>

\* what the user may have typed into the add form when a button is pressed
AddForms ==
    { [amount |-> <<" ", "5", "a">>, category |-> <<" ">> \o S_Food, note |-> <<"n">>],
      [amount |-> <<"0">>, category |-> S_Food, note |-> <<>>] }

\* what the user may have typed into the edit panel
EditForms ==
    { [amount |-> <<"7">>, category |-> S_Bus, note |-> <<>>, date |-> D_Month13],
      [amount |-> <<"0">>, category |-> S_Bus, note |-> <<>>, date |-> D_Jan08] }

\* instants of the host clock: Monday 2024-01-01 at 10:00 UTC
ClockInputs == { DaysFromCivil(2024, 1, 1) * 24 + 10 }

\* host zone offsets in hours
ZoneInputs == { 0 - 5, 0, 2 }

Filters == { FILTER_ALL, FILTER_WEEK, FILTER_MONTH }

-----------------------------------------------------------------------------
(* Persistence calls *)

Mutations == { "insert", "update", "delete" }

Call(kind, id, amt, cat, nt, dt) ==
    [kind |-> kind, stage |-> "sent", id |-> id, amount |-> amt, category |-> cat,
     note |-> nt, date |-> dt, rows |-> <<>>]

\* db.execAsync(CREATE TABLE IF NOT EXISTS ...)
CreateCall == Call("create", 0, JsNum(0), <<>>, <<>>, <<>>)

\* db.getAllAsync(SELECT ...)
SelectCall == Call("select", 0, JsNum(0), <<>>, <<>>, <<>>)

\* db.runAsync(DELETE ...)
DeleteCall(id) == Call("delete", id, JsNum(0), <<>>, <<>>, <<>>)

Remove(seq, i) == SubSeq(seq, 1, i - 1) \o SubSeq(seq, i + 1, Len(seq))

\* text.trim() || null
TrimOrNull(text) == IF Trim(text) = <<>> THEN NULL ELSE Trim(text)

\* rows the calls in flight may still add to the table
InsertsInFlight ==
    Cardinality({ i \in 1..Len(pending) :
                    pending[i].kind = "insert" /\ pending[i].stage = "sent" })

-----------------------------------------------------------------------------
(* Initial state: the screen has mounted and its effect has issued execAsync *)

Init ==
    /\ store = {}
    /\ nextId = 1
    /\ expenses = <<>>
    /\ filter = FILTER_ALL
    /\ amount = <<>> /\ category = <<>> /\ note = <<>>
    /\ editingExpense = <<>>
    /\ editAmount = <<>> /\ editCategory = <<>> /\ editNote = <<>> /\ editDate = <<>>
    /\ pending = <<CreateCall>>
    /\ now \in ClockInputs
    /\ tzOffset \in ZoneInputs
    /\ refused = "none"
    /\ failures = 0

-----------------------------------------------------------------------------
(* Handlers *)

\* onChangeText of the three add-form inputs
TypeAddForm(f) ==
    /\ amount' = f.amount /\ category' = f.category /\ note' = f.note
    /\ refused' = "none"
    /\ UNCHANGED <<store, nextId, expenses, filter, editVars, pending, hostVars, failures>>

\* the validation of addExpense refusing only amounts below 0
AddRefusedBelowZero(amountText, categoryText) ==
    LET amt == parseFloat(amountText)
    IN  amt.k = "nan" \/ amt.v < 0 \/ Trim(categoryText) = <<>>

\* the validation of addExpense: the form is refused
AddRefused(amountText, categoryText) ==
    LET amt == parseFloat(amountText)
    IN  amt.k = "nan" \/ amt.v <= 0 \/ Trim(categoryText) = <<>>

\* addExpense, up to its await
addExpense ==
    /\ IF AddRefused(amount, category)
       THEN refused' = "add" /\ UNCHANGED pending
       ELSE /\ refused' = "none"
            /\ Len(pending) < MaxPending
            /\ nextId + InsertsInFlight <= MaxId
            /\ pending' = Append(pending,
                   Call("insert", 0, parseFloat(amount), Trim(category),
                        TrimOrNull(note), getTodayIsoDate))
    /\ UNCHANGED <<store, nextId, expenses, filter, formVars, editVars, hostVars, failures>>

\* String(exp.amount)
RECURSIVE NatToString(_)
NatToString(n) ==
    IF n < 10 THEN <<DigitChars[n + 1]>>
    ELSE NatToString(n \div 10) \o <<DigitChars[(n % 10) + 1]>>

\* startEditing(exp), exp a row of the rendered list
startEditing(exp) ==
    /\ editingExpense' = <<exp>>
    /\ editAmount' = NatToString(exp.amount.v)
    /\ editCategory' = exp.category
    /\ editNote' = (IF exp.note = NULL THEN <<>> ELSE exp.note)
    /\ editDate' = (IF exp.date = <<>> THEN getTodayIsoDate ELSE exp.date)
    /\ refused' = "none"
    /\ UNCHANGED <<store, nextId, expenses, filter, formVars, pending, hostVars, failures>>

\* onChangeText of the four edit-panel inputs (the panel is rendered while editing)
TypeEditForm(f) ==
    /\ editingExpense # <<>>
    /\ editAmount' = f.amount /\ editCategory' = f.category
    /\ editNote' = f.note /\ editDate' = f.date
    /\ refused' = "none"
    /\ UNCHANGED <<store, nextId, expenses, filter, formVars, editingExpense, pending,
                   hostVars, failures>>

\* cancelEdit (the Cancel button of the panel)
cancelEdit ==
    /\ editingExpense # <<>>
    /\ editingExpense' = <<>>
    /\ editAmount' = <<>> /\ editCategory' = <<>> /\ editNote' = <<>> /\ editDate' = <<>>
    /\ refused' = "none"
    /\ UNCHANGED <<store, nextId, expenses, filter, formVars, pending, hostVars, failures>>

\* the validation of saveEdit: the panel's values are refused
EditRefused(amountText, categoryText, dateText) ==
    LET amt == parseFloat(amountText)
    IN  \/ amt.k = "nan" \/ amt.v <= 0
        \/ Trim(categoryText) = <<>>
        \/ Trim(dateText) = <<>>

\* saveEdit, up to its await
saveEdit ==
    /\ editingExpense # <<>>
    /\ IF EditRefused(editAmount, editCategory, editDate)
       THEN refused' = "edit" /\ UNCHANGED pending
       ELSE /\ refused' = "none"
            /\ Len(pending) < MaxPending
            /\ pending' = Append(pending,
                   Call("update", editingExpense[1].id, parseFloat(editAmount),
                        Trim(editCategory), TrimOrNull(editNote), Trim(editDate)))
    /\ UNCHANGED <<store, nextId, expenses, filter, formVars, editVars, hostVars, failures>>

\* deleteExpense(id), up to its await
deleteExpense(id) ==
    /\ Len(pending) < MaxPending
    /\ pending' = Append(pending, DeleteCall(id))
    /\ refused' = "none"
    /\ UNCHANGED <<store, nextId, expenses, filter, formVars, editVars, hostVars, failures>>

\* setFilter(f)
setFilter(f) ==
    /\ filter # f
    /\ filter' = f
    /\ refused' = "none"
    /\ UNCHANGED <<store, nextId, expenses, formVars, editVars, pending, hostVars, failures>>

-----------------------------------------------------------------------------
(* The store executes a call; the response resumes the awaiting handler *)

\* the table after the statement of call c
Executed(c) ==
    IF c.kind = "insert"
    THEN store \cup { [id |-> nextId, amount |-> c.amount, category |-> c.category,
                       note |-> c.note, date |-> c.date] }
    ELSE IF c.kind = "update"
    THEN { IF r.id = c.id
           THEN [id |-> r.id, amount |-> c.amount, category |-> c.category,
                 note |-> c.note, date |-> c.date]
           ELSE r : r \in store }
    ELSE IF c.kind = "delete"
    THEN { r \in store : r.id # c.id }
    ELSE store

\* the store runs the statement of call i
DbExecute(i) ==
    /\ pending[i].stage = "sent"
    /\ store' = Executed(pending[i])
    /\ nextId' = (IF pending[i].kind = "insert" THEN nextId + 1 ELSE nextId)
    /\ pending' = [pending EXCEPT ![i].stage = "ok",
                                  ![i].rows = IF pending[i].kind = "select"
                                              THEN SelectAll(store) ELSE <<>>]
    /\ refused' = "none"
    /\ UNCHANGED <<expenses, filter, formVars, editVars, hostVars, failures>>

\* the store fails the statement of call i and leaves the table as it was
DbFail(i) ==
    /\ pending[i].stage = "sent"
    /\ pending' = [pending EXCEPT ![i].stage = "failed"]
    /\ failures < MaxFailures
    /\ failures' = failures + 1
    /\ refused' = "none"
    /\ UNCHANGED <<store, nextId, expenses, filter, formVars, editVars, hostVars>>

\* the handlers reloading also after a rejected await
AfterResumeAlwaysReload(i) ==
    IF pending[i].kind # "select"
    THEN Append(Remove(pending, i), SelectCall)
    ELSE Remove(pending, i)

\* the calls in flight once the handler awaiting call i has resumed
AfterResume(i) ==
    IF pending[i].stage = "ok" /\ pending[i].kind # "select"
    THEN Append(Remove(pending, i), SelectCall)
    ELSE Remove(pending, i)

\* the promise of call i settles and the rest of its handler runs:
\* setup / addExpense / saveEdit / deleteExpense call loadExpenses, loadExpenses
\* calls setExpenses(rows); a rejected await ends the handler there
Resume(i) ==
    /\ pending[i].stage # "sent"
    /\ pending' = AfterResume(i)
    /\ expenses' = (IF pending[i].stage = "ok" /\ pending[i].kind = "select"
                    THEN pending[i].rows ELSE expenses)
    /\ IF pending[i].stage = "ok" /\ pending[i].kind = "insert"
       THEN amount' = <<>> /\ category' = <<>> /\ note' = <<>>
       ELSE UNCHANGED formVars
    /\ IF pending[i].stage = "ok" /\ pending[i].kind = "update"
       THEN /\ editingExpense' = <<>>
            /\ editAmount' = <<>> /\ editCategory' = <<>>
            /\ editNote' = <<>> /\ editDate' = <<>>
       ELSE UNCHANGED editVars
    /\ refused' = "none"
    /\ UNCHANGED <<store, nextId, filter, hostVars, failures>>

\* the useMemo values of the current render; filteredExpenses is the data of
\* the FlatList
filteredExpenses == FilterExpenses(expenses, filter, now)
totalsByCategory == TotalsOf(filteredExpenses)
overallTotal == TotalOf(filteredExpenses)

Next ==
    \/ \E f \in AddForms : TypeAddForm(f)
    \/ addExpense
    \/ \E i \in 1..Len(filteredExpenses) : startEditing(filteredExpenses[i])
    \/ \E f \in EditForms : TypeEditForm(f)
    \/ cancelEdit
    \/ saveEdit
    \/ \E i \in 1..Len(filteredExpenses) : deleteExpense(filteredExpenses[i].id)
    \/ \E f \in Filters : setFilter(f)
    \/ \E i \in 1..Len(pending) : DbExecute(i)
    \/ \E i \in 1..Len(pending) : DbFail(i)
    \/ \E i \in 1..Len(pending) : Resume(i)

Spec == Init /\ [][Next]_vars

-----------------------------------------------------------------------------
(* The view functions on drawn lists *)

Row(id, amt, cat, dt) ==
    [id |-> id, amount |-> amt, category |-> cat, note |-> NULL, date |-> dt]

\* rows the table can hold: positive numeric amount, trimmed non-empty category
StoredRows ==
    { Row(1, JsNum(1), S_Bus, D_Jan01),
      Row(2, JsNum(1), S_Bus, D_Jan01),
      Row(3, JsNum(Pow2(Precision)), S_Food, D_Jan01),
      Row(4, JsNum(2), S_Food, D_Jan08),
      Row(5, JsNum(2), S_Bus, D_Month13),
      Row(6, JsNum(1), S_Food, D_Dec31) }

\* rows with a missing or non-numeric amount, or an empty or missing category
OddRows ==
    { Row(7, JsNull, S_Food, D_Jan08),
      Row(8, JsStr(<<"x">>), S_Food, D_Jan01),
      Row(9, JsNum(1), <<>>, D_Jan01),
      Row(10, JsNum(2), NULL, D_Soon) }

\* instants of the host clock for the view
ViewClockInputs ==
    { DaysFromCivil(2024, 1, 1) * 24 + 3,      \* Monday 03:00 UTC, first of the month
      DaysFromCivil(2024, 1, 1) * 24 + 10,     \* Monday 10:00 UTC
      DaysFromCivil(2024, 1, 7) * 24 + 23,     \* Sunday 23:00 UTC
      DaysFromCivil(2024, 12, 31) * 24 + 22 }  \* 31 December, 22:00 UTC

\* the screen showing the rows of `rows`, no call in flight
InitShowing(rows) ==
    /\ \E shown \in SUBSET rows :
          /\ Cardinality(shown) <= MaxList
          /\ store = shown
          /\ expenses = SelectAll(shown)
    /\ nextId = 11
    /\ filter = FILTER_ALL
    /\ amount = <<>> /\ category = <<>> /\ note = <<>>
    /\ editingExpense = <<>>
    /\ editAmount = <<>> /\ editCategory = <<>> /\ editNote = <<>> /\ editDate = <<>>
    /\ pending = <<>>
    /\ now \in ViewClockInputs
    /\ tzOffset \in ZoneInputs
    /\ refused = "none"
    /\ failures = 0

InitView == InitShowing(StoredRows \cup OddRows)

InitStored == InitShowing(StoredRows)

NextView == \E f \in Filters : setFilter(f)

\* the view functions on any list of rows
SpecView == InitView /\ [][NextView]_vars

\* the view functions on lists of rows the table can hold
SpecStored == InitStored /\ [][NextView]_vars

-----------------------------------------------------------------------------
(* Claims *)

MutationsInFlight ==
    Cardinality({ i \in 1..Len(pending) : pending[i].kind \in Mutations })

\* no call is in flight and none has failed
Quiescent == pending = <<>> /\ failures = 0

\* C1: once every persistence call has completed, the cached list is the
\* table's current selectAll result.
C1_CacheEqualsStoreWhenQuiescent ==
    Quiescent => expenses = SelectAll(store)

\* C2: at most one mutating persistence call (insert, update, delete) is in
\* flight at any time.
C2_OneMutationInFlight == MutationsInFlight <= 1

\* a row satisfies the data-model invariants
RowValid(r) ==
    /\ r.amount.k = "num" /\ r.amount.v > 0
    /\ r.category # NULL /\ Trim(r.category) # <<>>
    /\ IsValidIsoDate(r.date)

\* C3: every row of the table has amount > 0, a category that is non-empty
\* after trimming, and a date that is a valid calendar date in YYYY-MM-DD form.
C3_StoredRowsValid == \A r \in store : RowValid(r)

\* the local calendar day (a day number) an instant falls on
CalendarDayOf(t) == (t + tzOffset) \div 24

\* the day number a valid date text names
DayOfText(str) == DaysFromCivil(IsoYear(str), IsoMonth(str), IsoDayOfMonth(str))

\* the row's date, as a calendar date, lies in the window [start, end)
DateInWindow(r, w) ==
    /\ IsValidIsoDate(r.date)
    /\ CalendarDayOf(w.start) <= DayOfText(r.date)
    /\ DayOfText(r.date) < CalendarDayOf(w.end)

WindowOf(f) == IF f = FILTER_WEEK THEN getWeekBounds(now) ELSE getMonthBounds(now)

KeptByDate(r) == DateInWindow(r, WindowOf(filter))

\* C4: the filtered list is the cached list under ALL, and under WEEK or
\* MONTH the cached rows, in order, whose date as a calendar date lies in
\* [start, end) of the window; rows with a malformed date are left out.
C4_FilterByCalendarDate ==
    filteredExpenses = IF filter = FILTER_ALL THEN expenses
               ELSE SelectSeq(expenses, KeptByDate)

\* an instant is 00:00 local time
IsLocalMidnight(t) == (t + tzOffset) % 24 = 0

LocalCivil(t) == CivilFromDays(CalendarDayOf(t))

\* C5: the week window starts at 00:00 on the Monday of the reference
\* instant's week and ends 7 days later; the month window runs from 00:00 of
\* day 1 of the reference instant's month to 00:00 of day 1 of the next month
\* (January of the next year after December); both contain the instant.
C5_WindowBounds ==
    LET w == getWeekBounds(now)
        m == getMonthBounds(now)
        c == LocalCivil(now)
    IN  /\ IsLocalMidnight(w.start) /\ IsLocalMidnight(w.end)
        /\ (CalendarDayOf(w.start) + 3) % 7 = 0
        /\ w.end - w.start = 7 * 24
        /\ w.start <= now /\ now < w.end
        /\ IsLocalMidnight(m.start) /\ IsLocalMidnight(m.end)
        /\ LocalCivil(m.start) = [y |-> c.y, m |-> c.m, d |-> 1]
        /\ LocalCivil(m.end) = (IF c.m = 12 THEN [y |-> c.y + 1, m |-> 1, d |-> 1]
                                ELSE [y |-> c.y, m |-> c.m + 1, d |-> 1])
        /\ m.start <= now /\ now < m.end

\* C5 witness: a Sunday in December whose local day differs from its UTC day
C5_Witness ==
    /\ LocalCivil(now).m = 12
    /\ CalendarDayOf(now) # now \div 24
    /\ GetDay(now) = 0
    /\ filter = FILTER_WEEK

\* the add form is invalid: amount non-numeric or not above 0, or blank category
AddInvalid ==
    LET amt == parseFloat(amount)
    IN  amt.k = "nan" \/ ~(amt.v > 0) \/ Trim(category) = <<>>

\* the edit panel is invalid in amount or category
EditInvalid ==
    LET amt == parseFloat(editAmount)
    IN  amt.k = "nan" \/ ~(amt.v > 0) \/ Trim(editCategory) = <<>>

CountedAmount(r) ==
    IF r.amount.k = "num" THEN r.amount
    ELSE IF r.amount.k = "str" /\ StringToNumber(r.amount.s).k = "num"
    THEN StringToNumber(r.amount.s)
    ELSE JsNum(0)

RECURSIVE CountedSum(_, _)
CountedSum(sum, list) ==
    IF list = <<>> THEN sum
    ELSE CountedSum(FAdd(sum, CountedAmount(Head(list))), Tail(list))

LabelsOf(list) == { CategoryLabel(list[i]) : i \in 1..Len(list) }

\* C7: totalsByCategory has exactly the labels present (empty or missing
\* category under "Uncategorized"), each with the sum of its rows' amounts,
\* a missing or non-numeric amount counting as zero there and in overallTotal.
C7_TotalsPerLabel ==
    LET totals == totalsByCategory
    IN  /\ DOMAIN totals = LabelsOf(filteredExpenses)
        /\ \A c \in LabelsOf(filteredExpenses) :
              LET HasLabel(r) == CategoryLabel(r) = c
              IN  totals[c] = CountedSum(JsNum(0), SelectSeq(filteredExpenses, HasLabel))
        /\ overallTotal = CountedSum(JsNum(0), filteredExpenses)

\* the exact sum of the values of a totals map (NaN if one of them is NaN)
RECURSIVE SumOfValues(_, _)
SumOfValues(map, labels) ==
    IF labels = {} THEN JsNum(0)
    ELSE LET c == CHOOSE x \in labels : TRUE
             rest == SumOfValues(map, labels \ {c})
         IN  IF map[c].k = "nan" \/ rest.k = "nan" THEN JsNaN
             ELSE JsNum(map[c].v + rest.v)

\* the exact sum of the amounts of a list of stored rows
RECURSIVE ExactTotal(_)
ExactTotal(list) ==
    IF list = <<>> THEN 0 ELSE Head(list).amount.v + ExactTotal(Tail(list))

\* C8 as stated: overallTotal equals the sum of the values of totalsByCategory.
C8_OverallEqualsSumOfTotals ==
    LET totals == totalsByCategory
    IN  overallTotal = SumOfValues(totals, DOMAIN totals)

\* C8 amended: when the amounts are integers whose total stays below
\* 2^Precision, so that no addition rounds, overallTotal equals the sum of the
\* values of totalsByCategory.
C8_OverallEqualsSumWhenExact ==
    LET totals == totalsByCategory
    IN  ExactTotal(filteredExpenses) < Pow2(Precision)
            => /\ overallTotal = SumOfValues(totals, DOMAIN totals)
               /\ overallTotal = JsNum(ExactTotal(filteredExpenses))

\* C8 witness: a windowed list of three rows in two categories, summed exactly
C8_Witness ==
    /\ filter = FILTER_MONTH
    /\ Len(filteredExpenses) = 3
    /\ Cardinality(LabelsOf(filteredExpenses)) = 2
    /\ ExactTotal(filteredExpenses) < Pow2(Precision)

FailedInFlight ==
    Cardinality({ i \in 1..Len(pending) : pending[i].stage = "failed" })

\* the step sets the cached list from a select call that succeeded
CacheSetFromSelect ==
    \E i \in 1..Len(pending) :
        /\ pending[i].kind = "select" /\ pending[i].stage = "ok"
        /\ expenses' = pending[i].rows

\* C9: a step in which a persistence call fails, or in which the handler
\* awaiting a failed call resumes, leaves the cached list and the table as
\* they were and issues no call (no reload); the cached list changes only by
\* being set to the rows of a select that succeeded.
C9_FailureKeepsCache ==
    [][ /\ failures' # failures
            => expenses' = expenses /\ store' = store /\ Len(pending') = Len(pending)
        /\ FailedInFlight' < FailedInFlight
            => /\ expenses' = expenses /\ store' = store
               /\ Len(pending') = Len(pending) - 1
               /\ UNCHANGED <<formVars, editVars>>
        /\ expenses' # expenses => CacheSetFromSelect
      ]_vars

\* C9 witness: the store has failed a delete whose handler still awaits it,
\* and the cached list shows the row the table still holds
C9_Witness ==
    /\ \E i \in 1..Len(pending) :
          pending[i].kind = "delete" /\ pending[i].stage = "failed"
    /\ expenses # <<>> /\ expenses = SelectAll(store)

\* C10: every insert in flight carries the local calendar day of the instant
\* as its date, and a cached row carrying the date an add writes at this
\* instant is in the filtered list under WEEK and under MONTH.
C10_AddedTodayIsInWindows ==
    /\ \A i \in 1..Len(pending) :
          pending[i].kind = "insert"
              => /\ IsValidIsoDate(pending[i].date)
                 /\ DayOfText(pending[i].date) = CalendarDayOf(now)
    /\ \A i \in 1..Len(expenses) :
          expenses[i].date = getTodayIsoDate
              => /\ \E j \in 1..Len(FilterExpenses(expenses, FILTER_WEEK, now)) :
                        FilterExpenses(expenses, FILTER_WEEK, now)[j] = expenses[i]
                 /\ \E j \in 1..Len(FilterExpenses(expenses, FILTER_MONTH, now)) :
                        FilterExpenses(expenses, FILTER_MONTH, now)[j] = expenses[i]

====
